---------------------------- MODULE Spec2Model ----------------------------
(***************************************************************************)
(* Model of src/elevation.py: class Elevation.  One Elevation object is    *)
(* built from a point list; get_average_elevation is then called, in       *)
(* sequential or concurrent (asyncio) mode, any number of times.           *)
(*                                                                         *)
(* Strings are sequences of one-character tokens, so that rendering        *)
(* (coords_string) and URL building are real conversions.  The elevation   *)
(* service is the environment: it parses the URL it receives and answers   *)
(* one elevation per submitted location, or fails.                         *)
(***************************************************************************)
EXTENDS Integers, Sequences, FiniteSets, TLC

(* ---------------------------- bounds ---------------------------------- *)
MaxPoints == 3
MaxBatch == 3
MaxNegBatch == 1

(* ---------------------------- inputs ---------------------------------- *)
\* the "locations" items of the input document (lat/lon as str() renders them)
PointSet ==
    { [lat |-> <<"1">>, lon |-> <<"5">>, z |-> 10],
      [lat |-> <<"-", "2">>, lon |-> <<"6">>, z |-> 12] }

PointLists == UNION { [1..n -> PointSet] : n \in 0..MaxPoints }

BatchSizes == (0 - MaxNegBatch)..MaxBatch

api_key == <<"K">>

google_url == <<"https://maps.googleapis.com/maps/api/elevation/json?locations=">>

\* what the HTTP layer can do with one GET
Outcomes == {"200", "non200", "exception"}

(* --------------------------- environment ------------------------------ *)
\* ground truth of the elevation service, by "lat,lon" location string
TerrainElevation(loc) ==
    IF loc = <<"1", ",", "5">> THEN 4
    ELSE IF loc = <<"-", "2", ",", "6">> THEN 7
    ELSE 0

RECURSIVE SplitOn(_, _, _)
\* str.split(sep) on a token sequence; cur is the group being read
SplitOn(s, sep, cur) ==
    IF s = <<>> THEN <<cur>>
    ELSE IF Head(s) = sep THEN <<cur>> \o SplitOn(Tail(s), sep, <<>>)
    ELSE SplitOn(Tail(s), sep, Append(cur, Head(s)))

\* the value of the locations= query parameter of a request URL
LocationsParam(url) ==
    LET rest == SubSeq(url, Len(google_url) + 1, Len(url))
    IN  Head(SplitOn(rest, "&", <<>>))

\* the 200 body: {"results": [{"elevation": e}, ...]}, one per location, in order
ServiceJson(url) ==
    LET locs == SplitOn(LocationsParam(url), "|", <<>>)
    IN  [kind |-> "json",
         results |-> [i \in 1..Len(locs) |-> [elevation |-> TerrainElevation(locs[i])]]]

(* ------------------------ pure functions ------------------------------ *)
Min(a, b) == IF a < b THEN a ELSE b

\* Python s[a:b] for a >= 0 (b may be anything)
PySlice(s, a, b) ==
    LET n  == Len(s)
        b0 == IF b < 0 THEN (IF b + n < 0 THEN 0 ELSE b + n) ELSE Min(b, n)
    IN  IF b0 <= a THEN <<>> ELSE SubSeq(s, a + 1, b0)

\* membership of ndx in range(0, ln, step), step # 0
InRange(ndx, ln, step) == IF step > 0 THEN ndx < ln ELSE ndx > ln

coords_list(locs) == [i \in 1..Len(locs) |-> <<locs[i].lat, locs[i].lon>>]

RECURSIVE Join(_, _)
\* sep.join(parts)
Join(parts, sep) ==
    IF parts = <<>> THEN <<>>
    ELSE IF Len(parts) = 1 THEN Head(parts)
    ELSE Head(parts) \o <<sep>> \o Join(Tail(parts), sep)

\* str.replace(" ", "")
StripSpaces(s) == SelectSeq(s, LAMBDA c : c # " ")

coords_string(coords) ==
    StripSpaces(Join([i \in 1..Len(coords) |->
                         coords[i][1] \o <<",", " ">> \o coords[i][2]], "|"))

\* make_request: uri = f"{self.google_url}{coords_str}&key={self.api_key}"
RequestUri(coords_str) ==
    google_url \o coords_str \o <<"&", "k", "e", "y", "=">> \o api_key

\* URLs built without the credential
generate_urls_NoKey(strs) == [i \in 1..Len(strs) |-> google_url \o strs[i]]

\* generate_urls: the same f-string over make_coords_strings_list()
generate_urls(strs) ==
    [i \in 1..Len(strs) |->
        google_url \o strs[i] \o <<"&", "k", "e", "y", "=">> \o api_key]


\* a slice one short: coords[ndx:min(ndx + batch_size, ln) - 1]
NextChunk_OneShort(coords, n, size) ==
    PySlice(coords, n, Min(n + size, Len(coords)) - 1)

\* the slice the generator yields at index ndx: coords[ndx:min(ndx + batch_size, ln)]
NextChunk(coords, n, size) == PySlice(coords, n, Min(n + size, Len(coords)))

\* Python's None, a captured exception object, and a not-yet-set value
None == [kind |-> "None"]
ExceptionObject == [kind |-> "exception"]
Pending == [kind |-> "pending"]
NoResult == [kind |-> "none", stage |-> "none"]

Raised(exc, at) == [kind |-> "error", exc |-> exc, stage |-> at]

\* [item.get("elevation") for item in resp_res["results"]]; subscripting None or
\* an exception object raises TypeError
get_elevation_from_request(resp_res) ==
    IF resp_res.kind = "json"
    THEN [raised |-> FALSE,
          value |-> [i \in 1..Len(resp_res.results) |-> resp_res.results[i].elevation]]
    ELSE [raised |-> TRUE, value |-> <<>>]

RECURSIVE AssembleFrom(_, _)
\* the loop of get_google_data_async over the gathered responses
AssembleFrom(resps, acc) ==
    IF resps = <<>> THEN [raised |-> FALSE, value |-> acc]
    ELSE LET e == get_elevation_from_request(Head(resps))
         IN  IF e.raised THEN [raised |-> TRUE, value |-> acc]
             ELSE AssembleFrom(Tail(resps), acc \o e.value)

RECURSIVE Sum(_)
Sum(s) == IF s = <<>> THEN 0 ELSE Head(s) + Sum(Tail(s))

\* the difference taken the other way round
MeanDifference_Reversed(zs, es) ==
    [kind |-> "value", stage |-> "return",
     num |-> Sum(es) * Len(zs) - Sum(zs) * Len(es),
     den |-> Len(zs) * Len(es)]

\* df["z"].mean() - df["elevation"].mean(), as the exact fraction num/den
MeanDifference(zs, es) ==
    [kind |-> "value", stage |-> "return",
     num |-> Sum(zs) * Len(es) - Sum(es) * Len(zs),
     den |-> Len(zs) * Len(es)]

\* lines 231-242: the column assignment checks the length, then the two means
AverageElevation(locs, elevs) ==
    IF Len(elevs) # Len(locs)
    THEN [kind |-> "error", exc |-> "ValueError", stage |-> "aggregate",
          values |-> Len(elevs), index |-> Len(locs)]
    ELSE IF Len(locs) = 0
    THEN Raised("KeyError", "aggregate")
    ELSE MeanDifference([i \in 1..Len(locs) |-> locs[i].z], elevs)

\* results collected as the units complete
GatherResults_CompletionOrder(results, order) ==
    [j \in 1..Len(order) |-> results[order[j]]]

\* asyncio.gather: results in the order of the awaitables, not of completion
GatherResults(results, order) == [i \in 1..Len(results) |-> results[i]]

\* a loop that asks again for a chunk that was refused
NextItem_RetryRefused(i, status) == IF status = "non200" THEN i ELSE i + 1

\* the sequential loop moves on to the next item whatever the status was
NextItem(i, status) == i + 1

(* ----------------------------- state ---------------------------------- *)
VARIABLES
    locations,      \* self.locations
    batch_size,     \* BATCH_SIZE, the default of batch_coords_to_str
    fate,           \* environment: what happens to the GET for chunk i
    pc,             \* where get_average_elevation is
    asynchronous,   \* the mode argument of the running / last call
    ndx,            \* position of the batch_coords_to_str generator
    chunks,         \* the slices yielded so far
    c_strs,         \* make_coords_strings_list under construction
    urls,           \* generate_urls()
    item,           \* position of the loop of get_google_data
    sent,           \* URLs of the GETs issued by this call, in issue order
    inflight,       \* chunks whose GET has no response yet
    session,        \* the aiohttp.ClientSession of fetch_data
    task,           \* state of each make_async_request unit
    taskResult,     \* what each unit returned or raised
    completed,      \* units in completion order
    responses,      \* what fetch_data returned
    elevation_list, \* elevation_list / elevations
    result,         \* outcome of the running / last call
    last            \* per mode: what the last finished call did

vars == <<locations, batch_size, fate, pc, asynchronous, ndx, chunks, c_strs, urls,
          item, sent, inflight, session, task, taskResult, completed, responses,
          elevation_list, result, last>>

inputVars == <<locations, batch_size>>
batchVars == <<ndx, chunks, c_strs>>
asyncVars == <<session, task, taskResult, completed, responses>>

NeverCalled == [called |-> FALSE, sent |-> <<>>, elevations |-> <<>>, result |-> NoResult]

Init ==
    /\ locations \in PointLists
    /\ batch_size \in BatchSizes
    /\ fate = [i \in 1..Len(locations) |-> "unset"]
    /\ pc = "idle"
    /\ asynchronous = FALSE
    /\ ndx = 0
    /\ chunks = <<>>
    /\ c_strs = <<>>
    /\ urls = <<>>
    /\ item = 0
    /\ sent = <<>>
    /\ inflight = {}
    /\ session = "none"
    /\ task = <<>>
    /\ taskResult = <<>>
    /\ completed = <<>>
    /\ responses = <<>>
    /\ elevation_list = <<>>
    /\ result = NoResult
    /\ last = [m \in BOOLEAN |-> NeverCalled]

\* the call ends (returns or raises) with outcome res and elevation list elevs
Finish(res, elevs) ==
    /\ pc' = "done"
    /\ result' = res
    /\ elevation_list' = elevs
    /\ last' = [last EXCEPT ![asynchronous] =
                   [called |-> TRUE, sent |-> sent, elevations |-> elevs, result |-> res]]

\* the service answers the GET for chunk i with outcome o (fixed once chosen)
Answers(i, o) ==
    /\ i \in inflight
    /\ fate[i] \in {"unset", o}
    /\ fate' = [fate EXCEPT ![i] = o]
    /\ inflight' = inflight \ {i}

(* ---------------------------- actions --------------------------------- *)
\* get_average_elevation(asynchronous = m) is called
GetAverageElevation(m) ==
    /\ pc \in {"idle", "done"}
    /\ asynchronous' = m
    /\ pc' = "batching"
    /\ ndx' = 0 /\ chunks' = <<>> /\ c_strs' = <<>> /\ urls' = <<>>
    /\ item' = 0 /\ sent' = <<>> /\ inflight' = {}
    /\ session' = "none" /\ task' = <<>> /\ taskResult' = <<>>
    /\ completed' = <<>> /\ responses' = <<>>
    /\ elevation_list' = <<>> /\ result' = NoResult
    /\ UNCHANGED <<inputVars, fate, last>>

\* range(0, ln, 0) raises ValueError at the generator's first step
BatchRaise ==
    /\ pc = "batching"
    /\ batch_size = 0
    /\ Finish(Raised("ValueError", "batching"), elevation_list)
    /\ UNCHANGED <<inputVars, fate, asynchronous, batchVars, urls, item, sent, inflight,
                   asyncVars>>

\* one step of the generator inside the list comprehension
BatchYield ==
    /\ pc = "batching"
    /\ batch_size # 0
    /\ InRange(ndx, Len(locations), batch_size)
    /\ LET chunk == NextChunk(coords_list(locations), ndx, batch_size)
       IN  /\ chunks' = Append(chunks, chunk)
           /\ c_strs' = Append(c_strs, coords_string(chunk))
    /\ ndx' = ndx + batch_size
    /\ UNCHANGED <<inputVars, fate, pc, asynchronous, urls, item, sent, inflight,
                   asyncVars, elevation_list, result, last>>

\* the generator is exhausted: make_coords_strings_list returns
BatchStop ==
    /\ pc = "batching"
    /\ batch_size # 0
    /\ ~InRange(ndx, Len(locations), batch_size)
    /\ IF asynchronous
       THEN /\ urls' = generate_urls(c_strs)
            /\ pc' = "fetch_data"
            /\ item' = item
       ELSE /\ urls' = urls
            /\ pc' = "loop"
            /\ item' = 1
    /\ UNCHANGED <<inputVars, fate, asynchronous, batchVars, sent, inflight, asyncVars,
                   elevation_list, result, last>>

(* sequential mode: get_google_data *)

\* make_request(item): requests.get(uri) is issued and blocks the loop
MakeRequest ==
    /\ pc = "loop"
    /\ item <= Len(c_strs)
    /\ inflight = {}
    /\ sent' = Append(sent, RequestUri(c_strs[item]))
    /\ inflight' = {item}
    /\ UNCHANGED <<inputVars, fate, pc, asynchronous, batchVars, urls, item, asyncVars,
                   elevation_list, result, last>>

\* resp.status_code == 200: the elevations of resp.json() are appended
SyncStatus200 ==
    /\ pc = "loop"
    /\ Answers(item, "200")
    /\ elevation_list' =
          elevation_list \o get_elevation_from_request(ServiceJson(sent[Len(sent)])).value
    /\ item' = NextItem(item, "200")
    /\ UNCHANGED <<inputVars, pc, asynchronous, batchVars, urls, sent, asyncVars,
                   result, last>>

\* a refused chunk treated as fatal: raise_for_status() style
SyncStatusOther_Raises ==
    /\ pc = "loop"
    /\ Answers(item, "non200")
    /\ Finish(Raised("HTTPError", "fetch"), elevation_list)
    /\ UNCHANGED <<inputVars, asynchronous, batchVars, urls, item, sent, asyncVars>>

\* any other status: the chunk is skipped
SyncStatusOther ==
    /\ pc = "loop"
    /\ Answers(item, "non200")
    /\ item' = NextItem(item, "non200")
    /\ UNCHANGED <<inputVars, pc, asynchronous, batchVars, urls, sent, asyncVars,
                   elevation_list, result, last>>

\* requests.get raises (connection error): nothing catches it
SyncRaise ==
    /\ pc = "loop"
    /\ Answers(item, "exception")
    /\ Finish(Raised("ConnectionError", "fetch"), elevation_list)
    /\ UNCHANGED <<inputVars, asynchronous, batchVars, urls, item, sent, asyncVars>>

\* the loop is over: get_google_data returns elevation_list
GetGoogleDataReturn ==
    /\ pc = "loop"
    /\ item > Len(c_strs)
    /\ inflight = {}
    /\ pc' = "assign"
    /\ UNCHANGED <<inputVars, fate, asynchronous, batchVars, urls, item, sent, inflight,
                   asyncVars, elevation_list, result, last>>

(* concurrent mode: fetch_data and get_google_data_async *)

\* a wait that returns at the first completion
AllUnitsDone_FirstCompleted ==
    \/ task = <<>>
    \/ \E i \in 1..Len(task) : task[i] = "done"

\* every unit gather awaits has returned or raised
AllUnitsDone == \A i \in 1..Len(task) : task[i] = "done"

\* async with aiohttp.ClientSession(): one coroutine per url, then gather
FetchDataEnter ==
    /\ pc = "fetch_data"
    /\ session' = "open"
    /\ task' = [i \in 1..Len(urls) |-> "created"]
    /\ taskResult' = [i \in 1..Len(urls) |-> Pending]
    /\ pc' = "gather"
    /\ UNCHANGED <<inputVars, fate, asynchronous, batchVars, urls, item, sent, inflight,
                   completed, responses, elevation_list, result, last>>

\* unit i starts: session.get(url); the event loop starts the units in list order
UnitGet(i) ==
    /\ pc = "gather"
    /\ task[i] = "created"
    /\ \A j \in 1..(i - 1) : task[j] # "created"
    /\ task' = [task EXCEPT ![i] = "inflight"]
    /\ sent' = Append(sent, urls[i])
    /\ inflight' = inflight \cup {i}
    /\ UNCHANGED <<inputVars, fate, pc, asynchronous, batchVars, urls, item, session,
                   taskResult, completed, responses, elevation_list, result, last>>

\* unit i ends with value v
UnitEnds(i, v) ==
    /\ task' = [task EXCEPT ![i] = "done"]
    /\ taskResult' = [taskResult EXCEPT ![i] = v]
    /\ completed' = Append(completed, i)
    /\ UNCHANGED <<inputVars, pc, asynchronous, batchVars, urls, item, sent, session,
                   responses, elevation_list, result, last>>

\* response.status == 200: the unit returns await response.json()
Unit200(i) ==
    /\ pc = "gather"
    /\ Answers(i, "200")
    /\ UnitEnds(i, ServiceJson(urls[i]))

\* any other status: the unit falls off the end and returns None
UnitNon200(i) ==
    /\ pc = "gather"
    /\ Answers(i, "non200")
    /\ UnitEnds(i, None)

\* transport error or session timeout: the unit raises, gather keeps the exception
UnitRaise(i) ==
    /\ pc = "gather"
    /\ Answers(i, "exception")
    /\ UnitEnds(i, ExceptionObject)

\* responses = await asyncio.gather(*tasks, return_exceptions=True)
Gather ==
    /\ pc = "gather"
    /\ AllUnitsDone
    /\ responses' = GatherResults(taskResult, completed)
    /\ pc' = "exit"
    /\ UNCHANGED <<inputVars, fate, asynchronous, batchVars, urls, item, sent, inflight,
                   session, task, taskResult, completed, elevation_list, result, last>>

\* return responses: leaving the async with block closes the session
FetchDataExit ==
    /\ pc = "exit"
    /\ session' = "closed"
    /\ pc' = "assemble"
    /\ UNCHANGED <<inputVars, fate, asynchronous, batchVars, urls, item, sent, inflight,
                   task, taskResult, completed, responses, elevation_list, result, last>>

\* the loop of get_google_data_async ran to its end
AssembleReturn ==
    /\ pc = "assemble"
    /\ ~AssembleFrom(responses, <<>>).raised
    /\ elevation_list' = AssembleFrom(responses, <<>>).value
    /\ pc' = "assign"
    /\ UNCHANGED <<inputVars, fate, asynchronous, batchVars, urls, item, sent, inflight,
                   asyncVars, result, last>>

\* the loop of get_google_data_async met a response it cannot subscript
AssembleRaise ==
    /\ pc = "assemble"
    /\ AssembleFrom(responses, <<>>).raised
    /\ Finish(Raised("TypeError", "assembly"), AssembleFrom(responses, <<>>).value)
    /\ UNCHANGED <<inputVars, fate, asynchronous, batchVars, urls, item, sent, inflight,
                   asyncVars>>

(* both modes: the rest of get_average_elevation *)

\* income_data_df["elevation"] = ...; return z.mean() - elevation.mean()
Aggregate ==
    /\ pc = "assign"
    /\ Finish(AverageElevation(locations, elevation_list), elevation_list)
    /\ UNCHANGED <<inputVars, fate, asynchronous, batchVars, urls, item, sent, inflight,
                   asyncVars>>

Next ==
    \/ \E m \in BOOLEAN : GetAverageElevation(m)
    \/ BatchRaise
    \/ BatchYield
    \/ BatchStop
    \/ MakeRequest
    \/ SyncStatus200
    \/ SyncStatusOther
    \/ SyncRaise
    \/ GetGoogleDataReturn
    \/ FetchDataEnter
    \/ \E i \in DOMAIN task : UnitGet(i)
    \/ \E i \in DOMAIN task : Unit200(i)
    \/ \E i \in DOMAIN task : UnitNon200(i)
    \/ \E i \in DOMAIN task : UnitRaise(i)
    \/ Gather
    \/ FetchDataExit
    \/ AssembleReturn
    \/ AssembleRaise
    \/ Aggregate

Spec == Init /\ [][Next]_vars

(* ------------------------ verification -------------------------------- *)
RECURSIVE Flatten(_)
Flatten(ss) == IF ss = <<>> THEN <<>> ELSE Head(ss) \o Flatten(Tail(ss))

Reverse(s) == [i \in 1..Len(s) |-> s[Len(s) + 1 - i]]

\* what the service holds for a point / for the points of chunk k
PointElevation(p) == TerrainElevation(p.lat \o <<",">> \o p.lon)
ChunkElevations(k) ==
    [j \in 1..Len(chunks[k]) |->
        TerrainElevation(chunks[k][j][1] \o <<",">> \o chunks[k][j][2])]

\* the running or last call got past batching / past the fetch stage
PastBatching == pc \notin {"idle", "batching"} /\ result.stage # "batching"
PastFetch ==
    \/ pc \in {"assign"}
    \/ asynchronous /\ pc \in {"exit", "assemble"}
    \/ pc = "done" /\ result.stage \in {"assembly", "aggregate", "return"}

\* chunk k of this call was requested and its request failed
ChunkFailed(k) ==
    /\ k <= Len(sent)
    /\ k \notin inflight
    /\ fate[k] \in {"non200", "exception"}

\* C1: for batch_size >= 1 the chunks yielded so far are the point sequence up
\* to the generator's position, cut in order into pieces of 1..batch_size points
\* of which only the last may be short; once the generator is exhausted they
\* concatenate to the whole sequence, and each rendered chunk has one
\* "lat,lon" group per point of its chunk.
C1_ChunksPartition ==
    batch_size >= 1 =>
        LET coords == [i \in 1..Len(locations) |-> <<locations[i].lat, locations[i].lon>>]
        IN  /\ Flatten(chunks) = SubSeq(coords, 1, Min(ndx, Len(coords)))
            /\ \A k \in 1..Len(chunks) :
                  /\ Len(chunks[k]) \in 1..batch_size
                  /\ k < Len(chunks) => Len(chunks[k]) = batch_size
            /\ PastBatching => Flatten(chunks) = coords
            /\ Len(c_strs) = Len(chunks)
            /\ \A k \in 1..Len(c_strs) :
                  SplitOn(c_strs[k], "|", <<>>) =
                      [j \in 1..Len(chunks[k]) |->
                          chunks[k][j][1] \o <<",">> \o chunks[k][j][2]]

C1_Witness ==
    /\ PastBatching
    /\ batch_size = 2
    /\ Len(locations) = 3
    /\ Len(chunks) = 2
    /\ Len(chunks[2]) = 1
    /\ locations[1] # locations[2]

\* what the request for descriptor i came to
ExpectedOutcome(i) ==
    IF fate[i] = "200"
    THEN [kind |-> "json",
          results |-> [j \in 1..Len(chunks[i]) |-> [elevation |-> ChunkElevations(i)[j]]]]
    ELSE IF fate[i] = "non200" THEN None
    ELSE ExceptionObject

\* C2: in concurrent mode, what fetch_data returns has one outcome per URL and
\* position i holds the outcome of the request for URL i (payload, None or the
\* captured exception), whatever the completion order and the other outcomes.
C2_GatherKeepsOrder ==
    (asynchronous /\ PastFetch) =>
        /\ Len(responses) = Len(urls)
        /\ \A i \in 1..Len(urls) : responses[i] = ExpectedOutcome(i)

C2_Witness ==
    /\ asynchronous /\ PastFetch
    /\ Len(urls) = 3
    /\ completed = <<3, 2, 1>>
    /\ fate[1] = "200" /\ fate[2] = "exception" /\ fate[3] = "non200"
    /\ chunks[1] # chunks[3]

\* C3: with a non-empty point list, a call in which some chunk's request
\* failed ends in the length-mismatch error of the column assignment.  Stated
\* for the failure the claim names first: every request of the call was
\* answered with a status, and one of them was not 200.
C3_FailureGivesLengthMismatch ==
    (/\ pc = "done"
     /\ Len(locations) > 0
     /\ \A k \in 1..Len(sent) : fate[k] \in {"200", "non200"}
     /\ \E k \in 1..Len(locations) : ChunkFailed(k)) =>
        /\ result.kind = "error"
        /\ result.exc = "ValueError"
        /\ result.stage = "aggregate"

\* C4: in concurrent mode the assembly step does not raise, and returns the
\* elevations of the successful chunks, in chunk order.
C4_AssemblySkipsFailures ==
    (asynchronous /\ PastFetch /\ pc \in {"assign", "done"}) =>
        /\ result.stage # "assembly"
        /\ elevation_list =
              Flatten([k \in 1..Len(responses) |->
                          IF responses[k].kind = "json" THEN ChunkElevations(k) ELSE <<>>])

\* C5: in sequential mode, statuses other than 200 raise nothing and stop
\* nothing: unless a GET itself raised, get_google_data requested every chunk
\* and returned the elevations of the chunks answered 200, in chunk order.
C5_SequentialSkipsRefused ==
    ~asynchronous =>
        /\ (PastFetch /\ pc \in {"assign", "done"}) =>
              /\ Len(sent) = Len(chunks)
              /\ elevation_list =
                    Flatten([k \in 1..Len(chunks) |->
                                IF fate[k] = "200" THEN ChunkElevations(k) ELSE <<>>])
        /\ (pc = "done" /\ result.stage = "fetch") =>
              /\ sent # <<>>
              /\ fate[Len(sent)] = "exception"

C5_Witness ==
    /\ ~asynchronous
    /\ pc = "done"
    /\ Len(chunks) = 3
    /\ fate[1] = "200" /\ fate[2] = "non200" /\ fate[3] = "200"
    /\ Len(elevation_list) = 2
    /\ elevation_list[1] # elevation_list[2]

\* C6: with batch_size <= 0 (and at least one point) no GET is sent and the
\* call ends in an error raised at the batching stage.
C6_BadBatchSizeRejected ==
    (batch_size <= 0 /\ Len(locations) > 0) =>
        /\ sent = <<>>
        /\ pc = "done" => (result.kind = "error" /\ result.stage = "batching")

\* every chunk of the finished call was requested and answered 200
AllSucceeded ==
    /\ pc = "done"
    /\ Len(chunks) >= 1
    /\ Len(sent) = Len(chunks)
    /\ \A k \in 1..Len(chunks) : fate[k] = "200"

\* C7: in either mode, when every chunk's request succeeded, there are as many
\* elevations as points, elevation i is the service's elevation of point i, and
\* the call returns mean(z) - mean(elevation).
C7_AllSucceedGivesMeanDifference ==
    AllSucceeded =>
        LET n == Len(locations)
        IN  /\ Len(elevation_list) = n
            /\ \A i \in 1..n : elevation_list[i] = PointElevation(locations[i])
            /\ result.kind = "value"
            /\ result.den > 0
            /\ result.num * n =
                  (Sum([i \in 1..n |-> locations[i].z])
                     - Sum([i \in 1..n |-> PointElevation(locations[i])])) * result.den

C7_Witness ==
    /\ AllSucceeded
    /\ asynchronous
    /\ Len(locations) = 3
    /\ Len(chunks) = 2
    /\ \A i \in 1..3 : locations[i].z = 10
    /\ result.kind = "value"
    /\ result.num = 6 * result.den
    /\ last[FALSE].called
    /\ last[FALSE].result = result

\* C8: in sequential mode the GETs sent so far are those of the first chunks,
\* one each and in chunk order, the only request that can be in flight is
\* the last one sent, and when get_google_data returns every chunk was
\* requested once.
C8_SequentialOneAtATime ==
    ~asynchronous =>
        /\ Cardinality(inflight) <= 1
        /\ inflight \subseteq {Len(sent)}
        /\ Len(sent) <= Len(c_strs)
        /\ \A j \in 1..Len(sent) : sent[j] = RequestUri(c_strs[j])
        /\ (PastFetch /\ pc \in {"assign", "done"}) => Len(sent) = Len(c_strs)

C8_Witness ==
    /\ ~asynchronous
    /\ pc = "done"
    /\ Len(sent) = 3
    /\ fate[1] = "non200"
    /\ fate[3] = "200"
    /\ sent[1] # sent[2]

\* C9: in concurrent mode requests are in flight only while the session is
\* open, fetch_data has its result list only when every unit is done, and
\* after fetch_data the session is closed with every unit done and no request
\* left to issue; sequential mode opens no session.
C9_SessionLifetime ==
    /\ session \in {"none", "open", "closed"}
    /\ ~asynchronous => session = "none"
    /\ asynchronous =>
          /\ inflight # {} => session = "open"
          /\ pc = "gather" => session = "open"
          /\ pc = "exit" => (session = "open" /\ AllUnitsDone)
          /\ (PastFetch /\ pc # "exit") => session = "closed"
          /\ (PastFetch \/ session = "closed") =>
                /\ \A i \in 1..Len(task) : task[i] = "done"
                /\ Len(task) = Len(urls)
                /\ Len(sent) = Len(urls)
                /\ Len(responses) = Len(urls)
                /\ \A i \in 1..Len(responses) : responses[i] # Pending

C9_Witness ==
    /\ asynchronous
    /\ pc = "assemble"
    /\ session = "closed"
    /\ Len(task) = 3
    /\ completed = <<2, 3, 1>>
    /\ fate[2] = "exception"
    /\ fate[1] = "200"

\* C10: once both modes have been run on the same object, the URL sent for a
\* chunk is the same in both, the URL sequences are equal unless a sequential
\* GET raised (the sequential one is then a prefix), and when every chunk was
\* answered 200 both modes give the same elevation list and the same result.
C10_ModesAgree ==
    (last[TRUE].called /\ last[FALSE].called) =>
        LET s == last[FALSE]
            a == last[TRUE]
        IN  /\ Len(s.sent) <= Len(a.sent)
            /\ \A k \in 1..Len(s.sent) : s.sent[k] = a.sent[k]
            /\ s.result.stage # "fetch" => s.sent = a.sent
            /\ (\A k \in 1..Len(a.sent) : fate[k] = "200") =>
                  /\ s.elevations = a.elevations
                  /\ s.result = a.result

C10_Witness ==
    /\ last[TRUE].called /\ last[FALSE].called
    /\ asynchronous /\ pc = "done"
    /\ Len(last[TRUE].sent) = 3
    /\ \A k \in 1..3 : fate[k] = "200"
    /\ completed = <<3, 2, 1>>
    /\ last[TRUE].result.kind = "value"
    /\ last[FALSE].result.kind = "value"
    /\ last[TRUE].elevations[1] # last[TRUE].elevations[3]

=============================================================================
